---- MODULE Spec2Model ----
(***************************************************************************)
(* LOGO shutters: the cover entity of custom_components/logo_shutters      *)
(* (cover.py).  One LogoCover object, its movement tick tasks, and the     *)
(* command coroutines that run against it on the asyncio event loop.       *)
(*                                                                         *)
(* Time is counted in tick intervals: one unit is the 0.5 s the tick loop  *)
(* sleeps.  A coroutine runs without interruption between two awaits that  *)
(* really suspend (a service call, a sleep), so each action below is the   *)
(* code between two such awaits.  _cancel_movement and _start_movement     *)
(* hold no suspending await: they run inside the action that calls them.   *)
(***************************************************************************)
EXTENDS Integers, Sequences, FiniteSets, TLC

VARIABLES
    cover,   \* the LogoCover object: its fields, its tick tasks, the history
    proc,    \* the command coroutines: position in the code and locals
    now,     \* monotonic(), in tick intervals
    ops      \* commands and sensor events so far

vars == <<cover, proc, now, ops>>

----------------------------------------------------------------------------
(* Bounds of the model *)

MaxTime == 2          \* the clock stops here
MaxOps == 3           \* commands and sensor events in one run
MaxCmds == 2          \* command coroutines that may be in flight together
MaxTasks == 2         \* tick tasks that exist together (live or cancelled)
MaxDuration == 5      \* longest duration the position estimate is tried with
OpenTime == 2         \* configured open duration, in tick intervals
CloseTime == 1        \* configured close duration, in tick intervals

(* Program constants *)

TicksPerSecond == 2         \* asyncio.sleep(0.5): one tick interval is 0.5 s
TickInterval == 1           \* the sleep of the tick loop, in tick intervals
FullyOpen == 100
FullyClosed == 0
DefaultShadePosition == 40

Procs == 1..MaxCmds
TaskIds == 1..MaxTasks

\* Optional values: Python's None and a present value.
None == <<>>
Some(v) == <<v>>

----------------------------------------------------------------------------
(* _clamp_position: max(0, min(100, int(round(value)))).  A value is the   *)
(* exact fraction <<num, den>>, den > 0; round() rounds half to even.      *)
(* For the positions, durations and times of this module the float         *)
(* arithmetic of the code rounds to the same integer as the fraction.      *)

Max(a, b) == IF a >= b THEN a ELSE b
Min(a, b) == IF a <= b THEN a ELSE b

Round(v) ==
    LET q == v[1] \div v[2]
        r == v[1] % v[2]
    IN  IF 2 * r < v[2] THEN q
        ELSE IF 2 * r > v[2] THEN q + 1
        ELSE IF q % 2 = 0 THEN q ELSE q + 1

\* int(value): truncation toward zero, what the code would do without round().
Truncate(v) ==
    LET q == v[1] \div v[2]
    IN  IF v[1] < 0 /\ v[1] % v[2] # 0 THEN q + 1 ELSE q

ClampTruncating(v) == Max(FullyClosed, Min(FullyOpen, Truncate(v)))

ClampUnbounded(v) == Round(v)

ClampPosition(v) == Max(FullyClosed, Min(FullyOpen, Round(v)))

Float(n) == <<n, 1>>

----------------------------------------------------------------------------
(* Stop sequences, as _parse_stop_sequence returns them.  service_data is  *)
(* a set of <<key, value>> pairs with unique keys; a value is a sequence   *)
(* of strings.                                                             *)

StopStep(domain, service, entity_id, service_data, delay) ==
    [domain |-> domain, service |-> service, entity_id |-> entity_id,
     service_data |-> service_data, delay |-> delay]

PulseOpen == StopStep("switch", "turn_on", Some("switch.open"), {}, 1)
PulseClose == StopStep("switch", "turn_on", Some("switch.close"), {}, 0)
ReleaseAll ==
    StopStep("switch", "turn_off", Some("switch.open"),
             {<<"entity_id", <<"switch.stop">>>>}, 0)

\* The configured (parsed) sequences: shared, up-specific, down-specific.
\* No sequence at all; and a sequence for up only, so that a stop of an
\* opening runs steps and a stop of a closing finds an empty sequence.
NoStopConfig == [common |-> <<>>, up |-> <<>>, down |-> <<>>]
UpStopConfig == [common |-> <<>>, up |-> <<PulseOpen, ReleaseAll>>, down |-> <<>>]
StopConfigs == {UpStopConfig}

\* What a service call is asked to do.
Call(domain, service, data) == [domain |-> domain, service |-> service, data |-> data]

TurnOn(entity_id) == Call("switch", "turn_on", {<<"entity_id", <<entity_id>>>>})

TurnOffBoth(c) ==
    Call("switch", "turn_off", {<<"entity_id", <<c.open_switch, c.close_switch>>>>})

----------------------------------------------------------------------------
(* The tick tasks.  A task is free (no such task), sleeping in             *)
(* asyncio.sleep(0.5) until `wake`, or cancelled (CancelledError is to be  *)
(* thrown at its await).                                                   *)

FreeTask == [status |-> "free", wake |-> 0]

LiveTasks(c) == {i \in TaskIds : c.tasks[i].status = "sleeping"}

FreeIds(c) == {i \in TaskIds : c.tasks[i].status = "free"}

\* Room for asyncio.create_task within the model's bound.
CanCreateTask(c) == FreeIds(c) # {}

NewTaskId(c) == CHOOSE i \in FreeIds(c) : \A j \in FreeIds(c) : i <= j

----------------------------------------------------------------------------
(* LogoCover's methods that hold no suspending await, as functions from    *)
(* the object (and the clock) to the object.                               *)

\* _interpolated_position with self._position in the place of
\* self._movement_start_position.
InterpolatedPositionFromCommitted(c, t) ==
    IF \/ c.movement_start = None
       \/ c.movement_target = None
       \/ c.movement_expected_duration = None
    THEN Float(c.position)
    ELSE LET elapsed == t - c.movement_start[1]
             duration == c.movement_expected_duration[1]
             delta == c.movement_target[1] - c.movement_start_position
         IN  IF elapsed >= duration
             THEN Float(c.position + delta)
             ELSE <<c.position * duration + delta * elapsed, duration>>

\* _interpolated_position without the min(1.0, ...).
InterpolatedPositionNoCap(c, t) ==
    IF \/ c.movement_start = None
       \/ c.movement_target = None
       \/ c.movement_expected_duration = None
    THEN Float(c.position)
    ELSE LET elapsed == t - c.movement_start[1]
             duration == c.movement_expected_duration[1]
             delta == c.movement_target[1] - c.movement_start_position
         IN  <<c.movement_start_position * duration + delta * elapsed, duration>>

\* _interpolated_position raises: elapsed / 0.0 is a ZeroDivisionError.
InterpolationRaises(c) ==
    /\ c.movement_start # None
    /\ c.movement_target # None
    /\ c.movement_expected_duration # None
    /\ c.movement_expected_duration[1] = 0

\* _interpolated_position, as an exact fraction, where it does not raise.
\* With a negative duration elapsed / duration is not above 1.0 and the
\* min leaves it as it is.
InterpolatedPosition(c, t) ==
    IF \/ c.movement_start = None
       \/ c.movement_target = None
       \/ c.movement_expected_duration = None
    THEN Float(c.position)
    ELSE LET elapsed == t - c.movement_start[1]
             duration == c.movement_expected_duration[1]
             delta == c.movement_target[1] - c.movement_start_position
         IN  IF duration > 0
             THEN IF elapsed >= duration   \* progress = min(1.0, ...) = 1.0
                  THEN Float(c.movement_start_position + delta)
                  ELSE <<c.movement_start_position * duration + delta * elapsed,
                         duration>>
             ELSE <<0 - (c.movement_start_position * duration + delta * elapsed),
                    0 - duration>>

\* _set_motion
SetMotion(c, opening, closing) ==
    [c EXCEPT !.is_opening = opening, !.is_closing = closing]

\* task.cancel() on the task the object refers to.  The history fields
\* note that a live movement was superseded here, where it was, and whether
\* it was short of its expected duration.
CancelTask(c, t) ==
    IF c.movement_task = None THEN c
    ELSE IF c.tasks[c.movement_task[1]].status # "sleeping" THEN c  \* a task that is done
    ELSE [c EXCEPT !.tasks[c.movement_task[1]] = [status |-> "cancelled", wake |-> 0],
                   !.superseded_position =
                       IF InterpolationRaises(c) THEN None
                       ELSE Some(ClampPosition(InterpolatedPosition(c, t))),
                   !.superseded_in_flight =
                       /\ c.movement_start # None
                       /\ t - c.movement_start[1] < c.movement_expected_duration[1],
                   !.unstopped_end = "cancelled"]

\* _cancel_movement raises, at its call of _interpolated_position.
CancelMovementRaises(c, update_position) ==
    update_position /\ InterpolationRaises(c)

\* _cancel_movement; where it raises, what it has done by then.
CancelMovement(c, update_position, t) ==
    LET c1 == [CancelTask(c, t) EXCEPT !.movement_task = None]
        c2 == IF update_position /\ c1.movement_start # None
              THEN [c1 EXCEPT !.position = ClampPosition(InterpolatedPosition(c1, t))]
              ELSE c1
    IN  IF CancelMovementRaises(c, update_position) THEN c1
        ELSE SetMotion([c2 EXCEPT !.movement_start = None,
                                  !.movement_target = None,
                                  !.movement_expected_duration = None],
                       FALSE, FALSE)

\* _start_movement without "if self._movement_task: self._movement_task.cancel()".
StartMovementNoCancel(c, target, duration, opening, t) ==
    LET c1 == SetMotion([c EXCEPT !.movement_start = Some(t),
                                  !.movement_start_position = c.position,
                                  !.movement_target = Some(target),
                                  !.movement_expected_duration = Some(duration),
                                  !.last_direction_opening = Some(opening)],
                        opening, ~opening)
        id == NewTaskId(c1)
    IN  [c1 EXCEPT !.tasks[id] = [status |-> "sleeping", wake |-> t + TickInterval],
                   !.movement_task = Some(id)]

\* _start_movement
StartMovement(c, target, duration, opening, t) ==
    LET c1 == SetMotion([c EXCEPT !.movement_start = Some(t),
                                  !.movement_start_position = c.position,
                                  !.movement_target = Some(target),
                                  !.movement_expected_duration = Some(duration),
                                  !.last_direction_opening = Some(opening)],
                        opening, ~opening)
        c2 == [c1 EXCEPT !.tasks = CancelTask(c, t).tasks,
                         !.superseded_position = CancelTask(c, t).superseded_position,
                         !.superseded_in_flight = CancelTask(c, t).superseded_in_flight,
                         !.unstopped_end = CancelTask(c, t).unstopped_end]
        id == NewTaskId(c2)
    IN  [c2 EXCEPT !.tasks[id] = [status |-> "sleeping", wake |-> t + TickInterval],
                   !.movement_task = Some(id)]

\* _active_or_last_direction: Some(TRUE) opening, Some(FALSE) closing, None.
ActiveOrLastDirection(c) ==
    IF c.sensor_up_active \/ c.is_opening THEN Some(TRUE)
    ELSE IF c.sensor_down_active \/ c.is_closing THEN Some(FALSE)
    ELSE c.last_direction_opening

\* The pick with "if opening is True / elif opening is False" turned into
\* "if opening is False / else": an unknown direction runs the up sequence.
StopSequenceForUnknownAsUp(c, opening) ==
    IF opening = Some(FALSE) THEN c.stop_sequence_down ELSE c.stop_sequence_up

\* The sequence _execute_stop_sequence picks for a direction.
StopSequenceFor(c, opening) ==
    IF opening = Some(TRUE) THEN c.stop_sequence_up
    ELSE IF opening = Some(FALSE) THEN c.stop_sequence_down
    ELSE <<>>

\* The call that puts the step's entity_id into the data whatever they hold.
StepCallOverwritingTarget(step) ==
    [domain |-> step.domain, service |-> step.service,
     data |-> IF step.entity_id = <<>> THEN step.service_data
              ELSE {kv \in step.service_data : kv[1] # "entity_id"}
                       \cup {<<"entity_id", <<step.entity_id[1]>>>>}]

\* The call of one StopStep: its entity_id is put into the data unless the
\* data holds one.
StepCall(step) ==
    Call(step.domain, step.service,
         IF step.entity_id # None /\ ~(\E kv \in step.service_data : kv[1] = "entity_id")
         THEN step.service_data \cup {<<"entity_id", <<step.entity_id[1]>>>>}
         ELSE step.service_data)

----------------------------------------------------------------------------
(* LogoCover.__init__ *)

\* __init__ without the "or common_stop_seq" of the two sequences.
NewCoverNoSubstitution(cfg, initial_position, open_time, close_time) ==
    [entry |-> cfg,                \* self.entry: the configuration as given
     open_switch |-> "switch.open",
     close_switch |-> "switch.close",
     open_time |-> open_time,
     close_time |-> close_time,
     shade_position |-> Max(0, Min(100, DefaultShadePosition)),
     stop_sequence_up |-> cfg.up,
     stop_sequence_down |-> cfg.down,
     position |-> Max(0, Min(100, initial_position)),
     is_opening |-> FALSE,
     is_closing |-> FALSE,
     sensor_up_active |-> FALSE,
     sensor_down_active |-> FALSE,
     movement_task |-> None,
     movement_start |-> None,
     movement_start_position |-> Max(0, Min(100, initial_position)),
     movement_target |-> None,
     movement_expected_duration |-> None,
     last_direction_opening |-> None,
     tasks |-> [i \in TaskIds |-> FreeTask],
     superseded_position |-> None,
     superseded_in_flight |-> FALSE,
     unstopped_end |-> "none"]

NewCover(cfg, initial_position, open_time, close_time) ==
    [entry |-> cfg,                \* self.entry: the configuration as given
     open_switch |-> "switch.open",
     close_switch |-> "switch.close",
     open_time |-> open_time,
     close_time |-> close_time,
     shade_position |-> ClampPosition(Float(DefaultShadePosition)),
     stop_sequence_up |-> IF cfg.up # <<>> THEN cfg.up ELSE cfg.common,
     stop_sequence_down |-> IF cfg.down # <<>> THEN cfg.down ELSE cfg.common,
     position |-> ClampPosition(Float(initial_position)),
     is_opening |-> FALSE,
     is_closing |-> FALSE,
     sensor_up_active |-> FALSE,
     sensor_down_active |-> FALSE,
     movement_task |-> None,
     movement_start |-> None,
     movement_start_position |-> ClampPosition(Float(initial_position)),
     movement_target |-> None,
     movement_expected_duration |-> None,
     last_direction_opening |-> None,
     tasks |-> [i \in TaskIds |-> FreeTask],
     \* history, not fields of the object:
     superseded_position |-> None,  \* where the movement last superseded was
     superseded_in_flight |-> FALSE, \* and whether its duration was yet to run
     unstopped_end |-> "none"]      \* how a movement ended with no stop run since

\* A command coroutine that is not running.
IdleProc ==
    [pc |-> "idle", cmd |-> "none", target |-> 0, direction_open |-> FALSE,
     duration |-> 0, direction |-> None, step |-> 0, wake |-> 0,
     calls |-> <<>>]

\* Configured initial positions and the targets commands are given.
InitialPositions == {130}
PositionInputs == {-20, 130}

Init ==
    /\ \E cfg \in StopConfigs, initial \in InitialPositions :
           cover = NewCover(cfg, initial, OpenTime, CloseTime)
    /\ proc = [p \in Procs |-> IdleProc]
    /\ now = 0
    /\ ops = 0

\* A command or a sensor event arrives.
Arrives ==
    /\ ops < MaxOps
    /\ ops' = ops + 1

\* A command's coroutine takes the first slot that holds none.
Startable(p) ==
    /\ proc[p].pc = "idle"
    /\ \A q \in Procs : q < p => proc[q].pc # "idle"

\* The command that returns where it should raise.
FinishedSwallowingError(pr, result) ==
    [pc |-> "idle", cmd |-> "none", target |-> 0, direction_open |-> FALSE,
     duration |-> 0, direction |-> <<>>, step |-> 0, wake |-> 0,
     calls |-> <<>>]

\* The command is over: the coroutine is gone.  Where it raised, the slot
\* notes that its caller was handed the exception.
Finished(pr, result) ==
    IF result = "error" THEN [IdleProc EXCEPT !.cmd = "failed"] ELSE IdleProc

----------------------------------------------------------------------------
(* async_stop_cover and _execute_stop_sequence *)

\* _execute_stop_sequence up to its first service call.
ExecuteStopSequence(pr, c, opening) ==
    IF StopSequenceFor(c, opening) = <<>>
    THEN [pr EXCEPT !.pc = "stop_fallback", !.direction = opening,
                    !.calls = Append(@, TurnOffBoth(c))]
    ELSE [pr EXCEPT !.pc = "stop_step", !.direction = opening, !.step = 1,
                    !.calls = Append(@, StepCall(StopSequenceFor(c, opening)[1]))]

\* async_stop_cover up to the first service call: the object ...
StopCoverObject(c, t) ==
    IF CancelMovementRaises(c, TRUE) THEN CancelMovement(c, TRUE, t)
    ELSE [CancelMovement(c, TRUE, t) EXCEPT !.unstopped_end = "none"]

\* ... and the coroutine (gone, where _cancel_movement raised).
StopCoverFrame(c, cmd) ==
    IF CancelMovementRaises(c, TRUE) THEN IdleProc
    ELSE ExecuteStopSequence([IdleProc EXCEPT !.cmd = cmd], c, ActiveOrLastDirection(c))

AsyncStopCover(p, cmd) ==
    /\ Startable(p)
    /\ Arrives
    /\ cover' = StopCoverObject(cover, now)
    /\ proc' = [proc EXCEPT ![p] = StopCoverFrame(cover, cmd)]
    /\ UNCHANGED now

StopCover(p) == AsyncStopCover(p, "stop")

\* The end of async_stop_cover: self._set_motion(False, False).
FinishStop(p) ==
    /\ cover' = SetMotion(cover, FALSE, FALSE)
    /\ proc' = [proc EXCEPT ![p] = Finished(@, "ok")]

\* After a step's call and delay: the next step's call, or the end.
ContinueStopSequence(p) ==
    LET sequence == StopSequenceFor(cover, proc[p].direction)
    IN  IF proc[p].step < Len(sequence)
        THEN /\ proc' = [proc EXCEPT ![p].pc = "stop_step",
                                     ![p].step = @ + 1,
                                     ![p].wake = 0,
                                     ![p].calls = Append(@, StepCall(sequence[proc[p].step + 1]))]
             /\ UNCHANGED cover
        ELSE FinishStop(p)

\* The service call of the stop sequence returns.
StopCallReturns(p) ==
    /\ proc[p].pc \in {"stop_fallback", "stop_step"}
    /\ IF proc[p].pc = "stop_fallback"
       THEN FinishStop(p)
       ELSE LET step == StopSequenceFor(cover, proc[p].direction)[proc[p].step]
            IN  IF step.delay > 0
                THEN /\ proc' = [proc EXCEPT ![p].pc = "stop_delay",
                                             ![p].wake = now + step.delay]
                     /\ UNCHANGED cover
                ELSE ContinueStopSequence(p)
    /\ UNCHANGED <<now, ops>>

\* asyncio.sleep(step.delay) is over.
StopDelayElapsed(p) ==
    /\ proc[p].pc = "stop_delay"
    /\ now >= proc[p].wake
    /\ ContinueStopSequence(p)
    /\ UNCHANGED <<now, ops>>

\* A service call raises: the exception leaves the command.
CallFails(p) ==
    /\ proc[p].pc \in {"fire", "stop_fallback", "stop_step"}
    /\ proc' = [proc EXCEPT ![p] = Finished(@, "error")]
    /\ UNCHANGED <<cover, now, ops>>

----------------------------------------------------------------------------
(* async_set_cover_position, async_open_cover, async_close_cover,          *)
(* async_set_shade                                                         *)

\* "if target == self._position", compared with the target before clamping.
TargetIsPositionUnclamped(c, raw, target) == raw = c.position

\* "if target == self._position"
TargetIsPosition(c, raw, target) == target = c.position

AsyncSetCoverPosition(p, raw) ==
    LET target == ClampPosition(Float(raw))
        c1 == CancelMovement(cover, TRUE, now)
        direction_open == target > c1.position
        duration == IF direction_open THEN c1.open_time ELSE c1.close_time
    IN  /\ Startable(p)
        /\ ops < MaxOps
        /\ IF TargetIsPosition(cover, raw, target)
           THEN AsyncStopCover(p, "set_position")
           ELSE /\ cover' = c1
                /\ proc' = [proc EXCEPT ![p] =
                       IF CancelMovementRaises(cover, TRUE) THEN IdleProc
                       ELSE [IdleProc EXCEPT
                          !.pc = "fire", !.cmd = "set_position",
                          !.target = target,
                          !.direction_open = direction_open,
                          !.duration = duration,
                          !.calls = <<TurnOn(IF direction_open THEN c1.open_switch
                                             ELSE c1.close_switch)>>]]
                /\ Arrives
                /\ UNCHANGED now

SetCoverPosition(p) == \E raw \in PositionInputs : AsyncSetCoverPosition(p, raw)

OpenCover(p) == AsyncSetCoverPosition(p, FullyOpen)

CloseCover(p) == AsyncSetCoverPosition(p, FullyClosed)

SetShade(p) == AsyncSetCoverPosition(p, cover.shade_position)

\* _fire_direction_switch returns: _start_movement
FireSwitchReturns(p) ==
    /\ proc[p].pc = "fire"
    /\ CanCreateTask(cover)
    /\ cover' = StartMovement(cover, proc[p].target, proc[p].duration,
                              proc[p].direction_open, now)
    /\ proc' = [proc EXCEPT ![p] = Finished(@, "ok")]
    /\ UNCHANGED <<now, ops>>

----------------------------------------------------------------------------
(* _handle_motion_sensor: no suspending await, one step.                   *)

\* The handler that cancels on every deactivation, the other sensor active or not.
HandleMotionSensorCancellingAlways(opening, is_on) ==
    LET c0 == IF opening THEN [cover EXCEPT !.sensor_up_active = is_on]
              ELSE [cover EXCEPT !.sensor_down_active = is_on]
    IN  /\ Arrives
        /\ is_on => CanCreateTask(cover)
        /\ cover' =
             IF is_on /\ CancelMovementRaises(c0, TRUE)
             THEN CancelMovement(c0, TRUE, now)
             ELSE IF is_on
             THEN StartMovement(CancelMovement(c0, TRUE, now),
                                IF opening THEN FullyOpen ELSE FullyClosed,
                                IF opening THEN c0.open_time ELSE c0.close_time,
                                opening, now)
             ELSE CancelMovement(c0, TRUE, now)
        /\ UNCHANGED <<proc, now>>

HandleMotionSensor(opening, is_on) ==
    LET c0 == IF opening THEN [cover EXCEPT !.sensor_up_active = is_on]
              ELSE [cover EXCEPT !.sensor_down_active = is_on]
    IN  /\ Arrives
        /\ is_on => CanCreateTask(cover)
        /\ cover' =
             IF is_on /\ CancelMovementRaises(c0, TRUE)
             THEN CancelMovement(c0, TRUE, now)
             ELSE IF is_on
             THEN StartMovement(CancelMovement(c0, TRUE, now),
                                IF opening THEN FullyOpen ELSE FullyClosed,
                                IF opening THEN c0.open_time ELSE c0.close_time,
                                opening, now)
             ELSE IF ~c0.sensor_up_active /\ ~c0.sensor_down_active
                  THEN CancelMovement(c0, TRUE, now)
                  ELSE c0
        /\ UNCHANGED <<proc, now>>

SensorEvent == \E opening \in BOOLEAN, is_on \in BOOLEAN : HandleMotionSensor(opening, is_on)

----------------------------------------------------------------------------
(* _run_movement_task *)

\* The exit that clears both flags whatever the sensors report.
CompleteMovementFlagsOff(c, i) ==
    [SetMotion(c, FALSE, FALSE) EXCEPT
        !.position = ClampPosition(Float(c.movement_target[1])),
        !.movement_task = None,
        !.tasks[i] = FreeTask,
        !.superseded_position = None,
        !.superseded_in_flight = FALSE,
        !.unstopped_end = "completed"]

\* The loop's exit by "break": commit the target, flags from the sensors.
CompleteMovement(c, i) ==
    LET c1 == [c EXCEPT !.position = ClampPosition(Float(c.movement_target[1]))]
        c2 == IF c1.sensor_up_active \/ c1.sensor_down_active
              THEN SetMotion(c1, c1.sensor_up_active, c1.sensor_down_active)
              ELSE SetMotion(c1, FALSE, FALSE)
    IN  [c2 EXCEPT !.movement_task = None,
                   !.tasks[i] = FreeTask,
                   !.superseded_position = None,
                   !.superseded_in_flight = FALSE,
                   !.unstopped_end = "completed"]

\* The loop without its exits: every pass ends in another sleep.
TickStepWithoutExit(c, i, t) ==
    [c EXCEPT !.position = ClampPosition(InterpolatedPosition(c, t)),
              !.tasks[i].wake = t + TickInterval]

\* One pass of the loop, the sleep over: commit the interpolated position,
\* then sleep again or leave the loop.
TickStep(c, i, t) ==
    LET c1 == [c EXCEPT !.position = ClampPosition(InterpolatedPosition(c, t))]
    IN  IF InterpolationRaises(c)
        THEN [c EXCEPT !.tasks[i] = FreeTask]  \* ZeroDivisionError ends the task
        ELSE IF c1.movement_start = None
        THEN IF c1.movement_target = None
             THEN [c1 EXCEPT !.tasks[i] = FreeTask]  \* int(round(None)): TypeError
             ELSE CompleteMovement(c1, i)
        ELSE IF t - c1.movement_start[1] >= c1.movement_expected_duration[1]
             THEN CompleteMovement(c1, i)
             ELSE [c1 EXCEPT !.tasks[i].wake = t + TickInterval]

RunMovementTask(i) ==
    /\ cover.tasks[i].status = "sleeping"
    /\ now >= cover.tasks[i].wake
    /\ cover' = TickStep(cover, i, now)
    /\ UNCHANGED <<proc, now, ops>>

\* The cancelled loop that goes on to clear the task reference.
CancelledStepClearsReference(c, i) ==
    [c EXCEPT !.tasks[i] = [status |-> "free", wake |-> 0], !.movement_task = <<>>]

\* CancelledError reaches the task at its await: "except: return".
CancelledStep(c, i) == [c EXCEPT !.tasks[i] = FreeTask]

TaskCancelled(i) ==
    /\ cover.tasks[i].status = "cancelled"
    /\ cover' = CancelledStep(cover, i)
    /\ UNCHANGED <<proc, now, ops>>

----------------------------------------------------------------------------
(* The clock *)

\* The event loop is not held up: a cancellation is delivered, and a sleep
\* that is over is resumed, before a whole tick interval goes by.
LoopKeepsUp ==
    /\ \A i \in TaskIds : cover.tasks[i].status # "cancelled"
    /\ \A i \in TaskIds : cover.tasks[i].status = "sleeping" => now <= cover.tasks[i].wake
    /\ \A p \in Procs : proc[p].pc = "stop_delay" => now <= proc[p].wake

AdvanceTime(limit) ==
    /\ now < limit
    /\ LoopKeepsUp
    /\ now' = now + 1
    /\ UNCHANGED <<cover, proc, ops>>

\* Only a tick task's sleep and a stop step's delay read the clock, and they
\* read differences: time that passes while neither is pending changes
\* nothing any of them will see, and is left out.
ClockIsRead ==
    \/ LiveTasks(cover) # {}
    \/ \E p \in Procs : proc[p].pc = "stop_delay"

Tick ==
    /\ ClockIsRead
    /\ AdvanceTime(MaxTime)

\* A cancelled task is resumed with CancelledError by the next pass of the
\* event loop and does nothing but return: its resumption is taken before
\* any other step.
CancellationPending == \E i \in TaskIds : cover.tasks[i].status = "cancelled"

LoopTurn == ~CancellationPending

Next ==
    \/ \E i \in TaskIds : TaskCancelled(i)
    \/ \E p \in Procs : LoopTurn /\ SetCoverPosition(p)
    \/ \E p \in Procs : LoopTurn /\ OpenCover(p)
    \/ \E p \in Procs : LoopTurn /\ CloseCover(p)
    \/ \E p \in Procs : LoopTurn /\ SetShade(p)
    \/ \E p \in Procs : LoopTurn /\ StopCover(p)
    \/ \E p \in Procs : LoopTurn /\ FireSwitchReturns(p)
    \/ \E p \in Procs : LoopTurn /\ StopCallReturns(p)
    \/ \E p \in Procs : LoopTurn /\ StopDelayElapsed(p)
    \/ \E p \in Procs : LoopTurn /\ CallFails(p)
    \/ LoopTurn /\ SensorEvent
    \/ \E i \in TaskIds : LoopTurn /\ RunMovementTask(i)
    \/ LoopTurn /\ Tick

Spec == Init /\ [][Next]_vars

----------------------------------------------------------------------------
(* Claims checked under Spec *)

StopPcs == {"stop_fallback", "stop_step", "stop_delay"}

\* Every target a command can be given.
AllInputs == PositionInputs \cup {FullyOpen, FullyClosed, cover.shade_position}

\* C1: at most one movement tick task is live in every reachable state, and
\* it is the one the object refers to; two Movements never coexist.
C1_AtMostOneLiveTask ==
    /\ Cardinality(LiveTasks(cover)) <= 1
    /\ \A i \in LiveTasks(cover) : cover.movement_task = Some(i)

\* A movement was started over a live one while a command was suspended.
C1_Witness ==
    /\ \E i, j \in TaskIds :
           cover.tasks[i].status = "sleeping" /\ cover.tasks[j].status = "cancelled"
    /\ \E p \in Procs : proc[p].pc # "idle"

\* C2: a movement started while another was in flight, short of its
\* expected duration, starts from that movement's interpolated position
\* (rounded, clamped) at the instant it was superseded.
C2_StartIsInterpolatedPosition ==
    (/\ LiveTasks(cover) # {}
     /\ cover.superseded_position # None
     /\ cover.superseded_in_flight)
        => cover.movement_start_position = cover.superseded_position[1]

\* C3: set_position(p) with clamp(p) = the committed position is stop(): the
\* same object state, the same coroutine state (direction, calls), no
\* actuation switch turned on, no Movement started.
C3_SetPositionAtPositionIsStop ==
    [][\A p \in Procs, raw \in AllInputs :
          (ClampPosition(Float(raw)) = cover.position /\ AsyncSetCoverPosition(p, raw))
              => /\ cover' = StopCoverObject(cover, now)
                 /\ [proc'[p] EXCEPT !.cmd = "stop"] = StopCoverFrame(cover, "stop")
                 /\ proc'[p].pc \in StopPcs
                 /\ LiveTasks(cover') = {}
                 /\ ~cover'.is_opening /\ ~cover'.is_closing]_vars

\* A set_position command is in the stop sequence.
C3_Witness == \E p \in Procs : proc[p].cmd = "set_position" /\ proc[p].pc \in StopPcs

\* C6: a stop with the direction unknown, or with an empty sequence for the
\* direction, issues one call, turn off of both switches, and then ends.
C6_FallbackIsOneTurnOff ==
    [][\A p \in Procs :
          (/\ proc[p].pc \in StopPcs
           /\ \/ proc[p].direction = None
              \/ StopSequenceFor(cover, proc[p].direction) = <<>>)
              => /\ proc[p].pc = "stop_fallback"
                 /\ proc[p].calls = <<TurnOffBoth(cover)>>
                 /\ proc'[p] # proc[p] =>
                        proc'[p] \in {Finished(proc[p], "ok"), Finished(proc[p], "error")}]_vars

\* A stop of a closing, for which no sequence is configured.
C6_Witness ==
    \E p \in Procs :
        /\ proc[p].pc = "stop_fallback"
        /\ proc[p].direction = Some(FALSE)
        /\ cover.stop_sequence_up # <<>>

\* C7: the committed position, and every target, is an integer in 0..100.
C7_PositionInRange ==
    /\ cover.position \in FullyClosed..FullyOpen
    /\ cover.movement_target # None => cover.movement_target[1] \in FullyClosed..FullyOpen
    /\ \A p \in Procs : proc[p].target \in FullyClosed..FullyOpen

\* A tick has committed an interpolated position.
C7_Witness ==
    /\ LiveTasks(cover) # {}
    /\ cover.position # cover.movement_start_position
    /\ cover.position # cover.movement_target[1]

\* C8: no movement has ended, by completion or by cancellation, without a
\* run of the stop sequence executor.
C8_StopRunsAfterEveryEnd == cover.unstopped_end = "none"

\* The priority the direction of a stop is resolved with: an active sensor
\* (up before down), else an active flag, else the last direction.
SensorFirstDirection(c) ==
    IF c.sensor_up_active THEN Some(TRUE)
    ELSE IF c.sensor_down_active THEN Some(FALSE)
    ELSE IF c.is_opening THEN Some(TRUE)
    ELSE IF c.is_closing THEN Some(FALSE)
    ELSE c.last_direction_opening

\* C9: stop() hands the executor the direction of an active sensor first,
\* else of an active flag, else the last direction, else unknown.
C9_StopDirectionPriority ==
    [][\A p \in Procs :
          AsyncStopCover(p, "stop") => proc'[p].direction = SensorFirstDirection(cover)]_vars

----------------------------------------------------------------------------
(* The timed scenario: open and close duration 20 s, initial position 0,   *)
(* one command set_position(50) at t = 0, no other command, no sensor      *)
(* event.  The switch call may take any time; times are counted from the   *)
(* start of the movement.                                                  *)

TimedInit ==
    /\ cover = NewCover(NoStopConfig, 0,
                        20 * TicksPerSecond, 20 * TicksPerSecond)
    /\ proc = [p \in Procs |-> IdleProc]
    /\ now = 0
    /\ ops = 0

TimedCommand ==
    /\ ops = 0
    /\ now = 0
    /\ AsyncSetCoverPosition(1, 50)

TimedNext ==
    \/ TimedCommand
    \/ FireSwitchReturns(1)
    \/ \E i \in TaskIds : RunMovementTask(i)
    \/ AdvanceTime(22 * TicksPerSecond)

TimedSpec == TimedInit /\ [][TimedNext]_vars

\* Seconds since the movement in flight started.
ElapsedIs(seconds) ==
    /\ LiveTasks(cover) # {}
    /\ now - cover.movement_start[1] = seconds * TicksPerSecond

\* C4, as amended: set_position(50) from 0 with both durations 20 s starts
\* an opening movement; 10 s into it the interpolated position is 25 (the
\* movement to 50 is spread over the whole open duration); when the loop
\* ends, 20 s or more into it, the committed position is exactly 50 and
\* both flags are false.
C4_TimedScenarioAmended ==
    /\ \A p \in Procs : proc[p].pc = "fire" => proc[p].direction_open
    /\ LiveTasks(cover) # {} => cover.is_opening /\ ~cover.is_closing
    /\ ElapsedIs(10) => ClampPosition(InterpolatedPosition(cover, now)) = 25
    /\ cover.unstopped_end = "completed" =>
           /\ cover.position = 50
           /\ ~cover.is_opening /\ ~cover.is_closing
           /\ now - cover.movement_start[1] >= 20 * TicksPerSecond

\* The movement of the scenario has run to its end.
C4_Witness ==
    /\ cover.unstopped_end = "completed"
    /\ cover.position = 50
    /\ LiveTasks(cover) = {}

\* C4 as stated: set_position(50) from 0 with both durations 20 s starts an
\* opening movement; 10 s into it the interpolated position is 50; at its
\* end (20 s) the committed position is exactly 50 and both flags are false.
C4_TimedScenario ==
    /\ \A p \in Procs : proc[p].pc = "fire" => proc[p].direction_open
    /\ LiveTasks(cover) # {} => cover.is_opening /\ ~cover.is_closing
    /\ ElapsedIs(10) => ClampPosition(InterpolatedPosition(cover, now)) = 50
    /\ cover.unstopped_end = "completed" =>
           /\ cover.position = 50
           /\ ~cover.is_opening /\ ~cover.is_closing
           /\ now - cover.movement_start[1] >= 20 * TicksPerSecond

----------------------------------------------------------------------------
(* The sensor scenario: open duration 20 s, the shutter stationary at 30;  *)
(* the "moving up" sensor turns on, and later off; the "moving down"       *)
(* sensor stays off; no command.                                           *)

SensorInit ==
    /\ cover = NewCover(NoStopConfig, 30,
                        20 * TicksPerSecond, 20 * TicksPerSecond)
    /\ proc = [p \in Procs |-> IdleProc]
    /\ now = 0
    /\ ops = 0

SensorUpOn ==
    /\ ops = 0
    /\ HandleMotionSensor(TRUE, TRUE)

SensorUpOff ==
    /\ cover.sensor_up_active
    /\ HandleMotionSensor(TRUE, FALSE)

SensorNext ==
    \/ SensorUpOn
    \/ SensorUpOff
    \/ \E i \in TaskIds : RunMovementTask(i)
    \/ \E i \in TaskIds : TaskCancelled(i)
    \/ AdvanceTime(8 * TicksPerSecond)

SensorSpec == SensorInit /\ [][SensorNext]_vars

\* The sensor scenario with the frozen position given as `frozen`.
SensorScenario(frozen) ==
    /\ SensorUpOn =>
           /\ LiveTasks(cover') # {}
           /\ cover'.movement_target = Some(100)
           /\ cover'.movement_start_position = 30
           /\ cover'.movement_expected_duration = Some(20 * TicksPerSecond)
           /\ cover'.is_opening /\ ~cover'.is_closing
    /\ (SensorUpOff /\ ElapsedIs(5)) =>
           /\ cover'.position = frozen
           /\ cover'.position # cover.movement_target[1]
           /\ LiveTasks(cover') = {}
           /\ ~cover'.is_opening /\ ~cover'.is_closing

\* C5, as amended: the sensor turning on at position 30 starts a Movement to
\* 100 from 30 with flags (opening, not closing); the sensor turning off 5 s
\* into it freezes the committed position at 30 + 70 * (5 / 20) = 47.5
\* rounded to 48, not at the target, with both flags false.
C5_SensorScenarioAmended == [][SensorScenario(48)]_vars

\* The sensor went off 5 s into the movement (a cancellation at 4.5 s leaves
\* 46, one at 5.5 s leaves 49).
C5_Witness ==
    /\ cover.unstopped_end = "cancelled"
    /\ ~cover.sensor_up_active
    /\ cover.position = 48
    /\ cover.movement_start = None

\* C5 as stated: ... the committed position freezes at 47.
C5_SensorScenario == [][SensorScenario(47)]_vars

----------------------------------------------------------------------------
(* The position estimate on its own: a Movement from any start position to *)
(* any target over any duration d > 0 has just been started; ticks and the *)
(* clock run, nothing else.                                                *)

EstimatorPositions == {0, 30, 47, 100}

EstimatorInit ==
    /\ \E sp \in EstimatorPositions, tg \in EstimatorPositions,
          d \in 1..MaxDuration, t0 \in 0..1 :
           /\ cover = StartMovement(
                          NewCover(NoStopConfig, sp, d, d),
                          tg, d, tg > sp, t0)
           /\ now = t0
    /\ proc = [p \in Procs |-> IdleProc]
    /\ ops = 0

EstimatorNext ==
    \/ \E i \in TaskIds : RunMovementTask(i)
    \/ AdvanceTime(MaxDuration + 3)

EstimatorSpec == EstimatorInit /\ [][EstimatorNext]_vars

\* Fractions: a <= b, and the distance of v from the integer n.
Leq(a, b) == a[1] * b[2] <= b[1] * a[2]
Distance(v, n) ==
    <<IF v[1] >= n * v[2] THEN v[1] - n * v[2] ELSE n * v[2] - v[1], v[2]>>

\* C10: for every start position, target, duration d > 0 and times
\* t1 <= t2 from the start on, the interpolated position at t2 is at least
\* as close to the target as at t1, lies between start and target, is the
\* start position at t = start and is the target for every t >= start + d.
C10_EstimateMonotoneNoOvershoot ==
    LET start == cover.movement_start[1]
        sp == cover.movement_start_position
        tg == cover.movement_target[1]
        d == cover.movement_expected_duration[1]
        At(t) == InterpolatedPosition(cover, t)
    IN  /\ At(start)[1] = sp * At(start)[2]
        /\ \A t2 \in start..now :
              /\ Leq(Float(Min(sp, tg)), At(t2)) /\ Leq(At(t2), Float(Max(sp, tg)))
              /\ t2 >= start + d => At(t2)[1] = tg * At(t2)[2]
              /\ \A t1 \in start..t2 : Leq(Distance(At(t2), tg), Distance(At(t1), tg))

\* A tick has committed a position strictly between start and target, and
\* the clock has gone past the end of the movement.
C10_Witness ==
    /\ cover.movement_start_position # cover.movement_target[1]
    /\ cover.position # cover.movement_start_position
    /\ cover.position # cover.movement_target[1]
    /\ now > cover.movement_start[1] + cover.movement_expected_duration[1]

----------------------------------------------------------------------------
(* Claims about the tick loop and the sensors, checked under Spec *)

\* The tick of task i finds the expected duration of its Movement run out.
CompletesNaturally(i) ==
    /\ RunMovementTask(i)
    /\ cover.movement_start # None
    /\ now - cover.movement_start[1] >= cover.movement_expected_duration[1]

\* C14: the tick that finds elapsed >= expected duration, in the one step,
\* commits exactly the target, sets the flags to what the sensors report
\* (both false when none is active) and clears the task reference.
C14_NaturalCompletionCommitsTarget ==
    [][\A i \in TaskIds :
          CompletesNaturally(i)
              => /\ cover'.position = cover.movement_target[1]
                 /\ cover'.is_opening = cover.sensor_up_active
                 /\ cover'.is_closing = cover.sensor_down_active
                 /\ cover'.movement_task = None
                 /\ LiveTasks(cover') = {}]_vars

\* A Movement has run to its end with a sensor still active.
C14_Witness ==
    /\ cover.unstopped_end = "completed"
    /\ cover.movement_task = None
    /\ cover.sensor_up_active /\ cover.is_opening /\ ~cover.is_closing
    /\ cover.position = FullyOpen

\* The step is a _cancel_movement that finds task i in flight (and is not
\* followed, in the same step, by a _start_movement).
CancelsInFlight(i) ==
    /\ cover.movement_task = Some(i)
    /\ cover.tasks[i].status = "sleeping"
    /\ cover'.tasks[i].status = "cancelled"
    /\ cover'.movement_task = None

\* C15: a cancel with position update of a Movement in flight commits the
\* interpolated position of that instant, clears the Movement record and
\* both flags; the cancelled loop then ends without a write to the
\* position, the flags, the task reference or anything else of the object.
C15_CancelFreezesPosition ==
    [][\A i \in TaskIds :
          /\ CancelsInFlight(i)
                => /\ cover'.position = ClampPosition(InterpolatedPosition(cover, now))
                   /\ cover'.movement_start = None
                   /\ cover'.movement_target = None
                   /\ cover'.movement_expected_duration = None
                   /\ ~cover'.is_opening /\ ~cover'.is_closing
          /\ TaskCancelled(i) => cover' = [cover EXCEPT !.tasks[i] = FreeTask]
          /\ cover.tasks[i].status = "cancelled" => ~RunMovementTask(i)]_vars

\* A Movement was cancelled midway, its loop has ended, and the committed
\* position is the one interpolated at the cancellation, not the target.
C15_Witness ==
    /\ cover.superseded_position = Some(cover.position)
    /\ cover.superseded_in_flight
    /\ cover.position \notin {FullyClosed, FullyOpen}
    /\ cover.movement_start = None
    /\ \A i \in TaskIds : cover.tasks[i].status = "free"

\* The parameters a step is to be called with: its own where they name a
\* target, else its own and its target identifier (where it has one).
ParametersOf(step) ==
    IF \E kv \in step.service_data : kv[1] = "entity_id" THEN step.service_data
    ELSE IF step.entity_id = None THEN step.service_data
    ELSE step.service_data \cup {<<"entity_id", <<step.entity_id[1]>>>>}

\* C16: while a non-empty stop sequence is executed, the calls issued so
\* far are those of its first steps, one per step, in the sequence's order
\* and with the parameters above; a step's delay begins only when its call
\* has returned, and the next step's call is issued only when the call has
\* returned and the delay, if any, has run out.
C16_StopStepsInOrder ==
    [][\A p \in Procs :
          LET sequence == StopSequenceFor(cover, proc[p].direction)
              k == proc[p].step
              later == proc'[p]
          IN  /\ proc[p].pc \in {"stop_step", "stop_delay"}
                    => /\ k \in 1..Len(sequence)
                       /\ proc[p].calls =
                              [j \in 1..k |-> Call(sequence[j].domain, sequence[j].service,
                                                   ParametersOf(sequence[j]))]
              /\ (proc[p].pc = "stop_step" /\ later # proc[p])
                    => \/ later.pc = "idle"
                       \/ /\ sequence[k].delay > 0
                          /\ later = [proc[p] EXCEPT !.pc = "stop_delay",
                                                     !.wake = now + sequence[k].delay]
                       \/ /\ sequence[k].delay = 0
                          /\ later.pc = "stop_step" /\ later.step = k + 1
              /\ (proc[p].pc = "stop_delay" /\ later # proc[p])
                    => /\ sequence[k].delay > 0
                       /\ now >= proc[p].wake
                       /\ \/ later.pc = "idle" /\ k = Len(sequence)
                          \/ later.pc = "stop_step" /\ later.step = k + 1]_vars

\* The second step of a sequence has been called, after the first step's
\* call and delay; its parameters name a target of their own.
C16_Witness ==
    \E p \in Procs :
        /\ proc[p].pc = "stop_step"
        /\ proc[p].step = 2
        /\ Len(proc[p].calls) = 2
        /\ proc[p].calls[2].data = {<<"entity_id", <<"switch.stop">>>>}

----------------------------------------------------------------------------
(* The stop sequences of the configuration: every choice of an empty or a  *)
(* non-empty shared, up-specific and down-specific sequence.  Sensor       *)
(* events give stop() its direction; one stop() runs at a time.            *)

AllStopConfigs ==
    { [common |-> common, up |-> up, down |-> down] :
        common \in {<<>>, <<ReleaseAll>>},
        up \in {<<>>, <<PulseOpen, ReleaseAll>>},
        down \in {<<>>, <<PulseClose>>} }

ConfigInit ==
    /\ \E cfg \in AllStopConfigs : cover = NewCover(cfg, 0, OpenTime, CloseTime)
    /\ proc = [p \in Procs |-> IdleProc]
    /\ now = 0
    /\ ops = 0

ConfigNext ==
    \/ SensorEvent
    \/ StopCover(1)
    \/ StopCallReturns(1)
    \/ StopDelayElapsed(1)
    \/ \E i \in TaskIds : RunMovementTask(i)
    \/ \E i \in TaskIds : TaskCancelled(i)
    \/ AdvanceTime(MaxTime)

ConfigSpec == ConfigInit /\ [][ConfigNext]_vars

\* The sequence the configuration gives a direction: the direction's own
\* where it is not empty, else the shared one; none for no direction.
ConfiguredSequence(cfg, opening) ==
    IF opening = None THEN <<>>
    ELSE IF opening = Some(TRUE) THEN (IF cfg.up # <<>> THEN cfg.up ELSE cfg.common)
    ELSE (IF cfg.down # <<>> THEN cfg.down ELSE cfg.common)

\* C17: the object holds, from its construction on, the shared sequence in
\* the place of an empty per-direction one; a stop resolved to a direction
\* executes the steps of that direction's own sequence where it is not
\* empty, else those of the shared one, and the turn-off fallback only
\* where both are empty.
C17_SharedSequenceSubstituted ==
    /\ cover.stop_sequence_up = ConfiguredSequence(cover.entry, Some(TRUE))
    /\ cover.stop_sequence_down = ConfiguredSequence(cover.entry, Some(FALSE))
    /\ \A p \in Procs :
          proc[p].pc \in StopPcs =>
              LET sequence == ConfiguredSequence(cover.entry, proc[p].direction)
              IN  IF sequence = <<>> /\ proc[p].direction # None
                  THEN /\ proc[p].pc = "stop_fallback"
                       /\ proc[p].calls = <<TurnOffBoth(cover)>>
                       /\ cover.entry.common = <<>>
                  ELSE proc[p].direction # None =>
                       /\ proc[p].pc \in {"stop_step", "stop_delay"}
                       /\ Len(proc[p].calls) <= Len(sequence)
                       /\ \A j \in 1..Len(proc[p].calls) :
                              proc[p].calls[j] = StepCall(sequence[j])

\* A stop of a closing executes the shared sequence, the down-specific one
\* being empty and the up-specific one not.
C17_Witness ==
    \E p \in Procs :
        /\ proc[p].pc = "stop_step"
        /\ proc[p].direction = Some(FALSE)
        /\ cover.entry.down = <<>>
        /\ cover.entry.up # <<>>
        /\ proc[p].calls = <<StepCall(ReleaseAll)>>

----------------------------------------------------------------------------
(* The two sensors on their own: sensor events, ticks and the clock, no    *)
(* command.                                                                *)

SensorsPositions == {0, 50, 100}

SensorsInit ==
    /\ \E initial \in SensorsPositions :
           cover = NewCover(NoStopConfig, initial, OpenTime, CloseTime)
    /\ proc = [p \in Procs |-> IdleProc]
    /\ now = 0
    /\ ops = 0

SensorsNext ==
    \/ SensorEvent
    \/ \E i \in TaskIds : RunMovementTask(i)
    \/ \E i \in TaskIds : TaskCancelled(i)
    \/ AdvanceTime(MaxTime)

SensorsSpec == SensorsInit /\ [][SensorsNext]_vars

\* C18: a sensor that goes inactive while the other is active only has its
\* state recorded: the Movement (start, target, duration), the tick task,
\* the committed position and the flags stay as they are.  When no sensor
\* is active after the event, the Movement is cancelled with position
\* update.
C18_DeactivationWithOtherActive ==
    [][\A opening \in BOOLEAN :
          HandleMotionSensor(opening, FALSE)
              => IF (IF opening THEN cover.sensor_down_active ELSE cover.sensor_up_active)
                 THEN cover' = IF opening THEN [cover EXCEPT !.sensor_up_active = FALSE]
                               ELSE [cover EXCEPT !.sensor_down_active = FALSE]
                 ELSE /\ LiveTasks(cover') = {}
                      /\ cover'.movement_task = None
                      /\ cover'.movement_start = None
                      /\ cover'.position = ClampPosition(InterpolatedPosition(cover, now))
                      /\ ~cover'.is_opening /\ ~cover'.is_closing]_vars

\* The up sensor went inactive with the down sensor active: the opening
\* Movement it had started is still in flight.
C18_Witness ==
    /\ ~cover.sensor_up_active
    /\ cover.sensor_down_active
    /\ LiveTasks(cover) # {}
    /\ cover.movement_target = Some(FullyOpen)
    /\ cover.is_opening

----------------------------------------------------------------------------
(* Claims about the motion flags and the direction of a Movement, checked  *)
(* under Spec.                                                             *)

\* C19: while a tick task is live, exactly one motion flag is true, and it
\* is the flag of the direction the Movement was started with.
C19_LiveTaskHasItsFlag ==
    LiveTasks(cover) # {}
        => /\ cover.is_opening # cover.is_closing
           /\ cover.last_direction_opening = Some(cover.is_opening)

\* The Movement on record runs from its start position towards its target
\* in the direction it was started with.
DirectionMatchesEndpoints(c) ==
    c.movement_target # None
        => IF c.last_direction_opening = Some(TRUE)
           THEN c.movement_target[1] >= c.movement_start_position
           ELSE c.movement_target[1] <= c.movement_start_position

\* The committed position does not go against the flag that is reported.
PositionFollowsFlag ==
    /\ cover.is_opening /\ cover'.is_opening => cover'.position >= cover.position
    /\ cover.is_closing /\ cover'.is_closing => cover'.position <= cover.position

\* C20: every Movement is recorded with a direction consistent with its
\* endpoints (opening: target >= start position, closing: target <= start
\* position), and the committed position never decreases while is_opening
\* is reported and never increases while is_closing is reported.
C20_DirectionConsistentWithEndpoints ==
    /\ [](DirectionMatchesEndpoints(cover))
    /\ [][PositionFollowsFlag]_vars

----------------------------------------------------------------------------
(* Durations that are not positive: the configuration is read without a    *)
(* check of the open and close durations (float(data[CONF_OPEN_TIME])), so *)
(* a Movement can be started with an expected duration of zero or less.    *)
(* Sensor events, position commands, ticks and the clock.                  *)

DurationInputs == {-2, 0, 2}
DurationPositions == {0, 50}

DurationInit ==
    /\ \E initial \in DurationPositions,
          open_time \in DurationInputs, close_time \in DurationInputs :
           cover = NewCover(NoStopConfig, initial, open_time, close_time)
    /\ proc = [p \in Procs |-> IdleProc]
    /\ now = 0
    /\ ops = 0

DurationCommand == \E raw \in {FullyClosed, FullyOpen} : AsyncSetCoverPosition(1, raw)

DurationNext ==
    \/ SensorEvent
    \/ DurationCommand
    \/ FireSwitchReturns(1)
    \/ \E i \in TaskIds : RunMovementTask(i)
    \/ \E i \in TaskIds : TaskCancelled(i)
    \/ AdvanceTime(MaxTime)

DurationSpec == DurationInit /\ [][DurationNext]_vars

\* C11: a tick of a Movement whose expected duration is zero or less finds
\* no error and the interpolated position at the target, commits the target
\* and ends the loop by its normal exit.
C11_NonPositiveDurationIsComplete ==
    [][\A i \in TaskIds :
          (/\ RunMovementTask(i)
           /\ cover.movement_expected_duration # None
           /\ cover.movement_expected_duration[1] <= 0)
              => /\ ~InterpolationRaises(cover)
                 /\ InterpolatedPosition(cover, now)[1] =
                        cover.movement_target[1] * InterpolatedPosition(cover, now)[2]
                 /\ cover'.position = cover.movement_target[1]
                 /\ cover'.movement_task = None
                 /\ cover'.unstopped_end = "completed"]_vars

----------------------------------------------------------------------------
(* More claims checked under Spec *)

\* C12: when a service call of set_position (the switch turn_on) or of
\* stop() (a step, the fallback) fails, the command ends there with the
\* exception handed to its caller: none of its later steps runs, no
\* Movement is started, and the object (committed position, flags and the
\* rest) is left as it was.
C12_FailedCallLeavesState ==
    [][\A p \in Procs :
          CallFails(p)
              => /\ proc'[p].pc = "idle"
                 /\ proc'[p].cmd = "failed"
                 /\ proc'[p].calls = <<>>
                 /\ cover' = cover
                 /\ \A q \in Procs \ {p} : proc'[q] = proc[q]]_vars

\* A command has ended in a failed call while a Movement is in flight.
C12_Witness ==
    /\ \E p \in Procs : proc[p].pc = "idle" /\ proc[p].cmd = "failed"
    /\ LiveTasks(cover) # {}

----------------------------------------------------------------------------
(* _parse_stop_sequence, one pass of its loop at a time.  No cover object  *)
(* exists yet (the parser runs inside __init__): `cover` is None and       *)
(* `proc` is the frame of the one call.  The text is given by what         *)
(* yaml.safe_load makes of it; a string is a sequence of characters.       *)

MaxSteps == 3         \* longest list the parser is given

\* Values of an element's "service" key.
StrValue(text) == [type |-> "str", text |-> text, number |-> 0]
IntValue(number) == [type |-> "int", text |-> <<>>, number |-> number]

\* Elements of a loaded list: mappings with a service of the form
\* "<namespace>.<action>", a scalar, and mappings with no service, an
\* empty one, one with no ".", and a number (YAML "service: 42").
LoadedElements ==
    { [mapping |-> TRUE, service |-> Some(StrValue(<<"a", ".", "x">>))],
      [mapping |-> TRUE, service |-> Some(StrValue(<<"b", ".", "y">>))],
      [mapping |-> FALSE, service |-> None],
      [mapping |-> TRUE, service |-> None],
      [mapping |-> TRUE, service |-> Some(StrValue(<<>>))],
      [mapping |-> TRUE, service |-> Some(StrValue(<<"x">>))],
      [mapping |-> TRUE, service |-> Some(IntValue(42))] }

LoadedLists ==
    UNION { [1..n -> LoadedElements] : n \in 0..MaxSteps }

\* What the parser is given: the raw text (empty, whitespace only, or
\* other) and, for other text, what yaml.safe_load does with it: raise,
\* or return a value that is a list or is not.
ParserInputs ==
    { [raw |-> "empty", loads |-> FALSE, is_list |-> FALSE, loaded |-> <<>>],
      [raw |-> "blank", loads |-> FALSE, is_list |-> FALSE, loaded |-> <<>>],
      [raw |-> "text", loads |-> FALSE, is_list |-> FALSE, loaded |-> <<>>],
      [raw |-> "text", loads |-> TRUE, is_list |-> FALSE, loaded |-> <<>>] }
    \cup { [raw |-> "text", loads |-> TRUE, is_list |-> TRUE, loaded |-> l] :
              l \in LoadedLists }

\* Python's truth value of a service value.
Truthy(v) ==
    /\ v # None
    /\ IF v[1].type = "str" THEN v[1].text # <<>> ELSE v[1].number # 0

\* "." in service
HasDot(text) == \E k \in 1..Len(text) : text[k] = "."

FirstDot(text) == CHOOSE k \in 1..Len(text) : text[k] = "." /\ \A j \in 1..(k - 1) : text[j] # "."

\* service.split(".", 1)
SplitService(text) ==
    <<SubSeq(text, 1, FirstDot(text) - 1), SubSeq(text, FirstDot(text) + 1, Len(text))>>

\* The call up to its loop.
ParseStopSequence(input) ==
    IF input.raw \in {"empty", "blank"} \/ ~input.loads \/ ~input.is_list
    THEN [input |-> input, pc |-> "returned", idx |-> 0, steps |-> <<>>]
    ELSE [input |-> input, pc |-> "loop", idx |-> 0, steps |-> <<>>]

\* One element of the loop: skipped, appended, or the TypeError that
\* "." not in service raises for a number.
ParseElement(frame) ==
    LET step == frame.input.loaded[frame.idx + 1]
        next == [frame EXCEPT !.idx = @ + 1]
    IN  IF ~step.mapping THEN next
        ELSE IF ~Truthy(step.service) THEN next
        ELSE IF step.service[1].type # "str" THEN [frame EXCEPT !.pc = "raised"]
        ELSE IF ~HasDot(step.service[1].text) THEN next
        ELSE [next EXCEPT !.steps =
                 Append(@, StopStep(SplitService(step.service[1].text)[1],
                                    SplitService(step.service[1].text)[2],
                                    None, {}, 0))]

ParserInit ==
    /\ cover = None
    /\ \E input \in ParserInputs : proc = ParseStopSequence(input)
    /\ now = 0
    /\ ops = 0

ParserStep ==
    /\ proc.pc = "loop"
    /\ proc.idx < Len(proc.input.loaded)
    /\ proc' = ParseElement(proc)
    /\ UNCHANGED <<cover, now, ops>>

ParserReturns ==
    /\ proc.pc = "loop"
    /\ proc.idx = Len(proc.input.loaded)
    /\ proc' = [proc EXCEPT !.pc = "returned"]
    /\ UNCHANGED <<cover, now, ops>>

ParserNext == ParserStep \/ ParserReturns

ParserSpec == ParserInit /\ [][ParserNext]_vars

\* An element that is a mapping with a service that holds a ".".
WellFormed(step) ==
    /\ step.mapping
    /\ step.service # None
    /\ step.service[1].type = "str"
    /\ HasDot(step.service[1].text)

\* The steps of the well-formed elements of a list, in the list's order.
RECURSIVE StepsOfWellFormed(_)
StepsOfWellFormed(loaded) ==
    IF loaded = <<>> THEN <<>>
    ELSE LET rest == StepsOfWellFormed(Tail(loaded))
             text == Head(loaded).service[1].text
         IN  IF WellFormed(Head(loaded))
             THEN <<StopStep(SplitService(text)[1], SplitService(text)[2], None, {}, 0)>>
                      \o rest
             ELSE rest

\* C13: the parser always returns, and returns the steps of exactly the
\* well-formed elements in their order; empty or whitespace-only text,
\* text that does not load and a loaded value that is no list give the
\* empty sequence.
C13_ParserKeepsWellFormedSteps ==
    /\ proc.pc # "raised"
    /\ proc.pc = "returned" => proc.steps = StepsOfWellFormed(proc.input.loaded)

----------------------------------------------------------------------------
(* One Movement and nothing after it: the cover at rest, one command or    *)
(* one sensor event, then only the switch call's return, the ticks and the *)
(* clock.  The event loop resumes a task whose sleep is over and a         *)
(* coroutine whose call has returned, and time goes on: weak fairness of   *)
(* each.  A late tick runs at most one interval late (LoopKeepsUp), so the *)
(* clock never comes near its cap.                                         *)

CompletionPositions == {0, 50, 100}
CompletionDurations == {1, OpenTime, MaxDuration}
CompletionClockCap == 2 * MaxDuration + 2

CompletionInit ==
    /\ \E initial \in CompletionPositions,
          open_time \in CompletionDurations, close_time \in CompletionDurations :
           cover = NewCover(NoStopConfig, initial, open_time, close_time)
    /\ proc = [p \in Procs |-> IdleProc]
    /\ now = 0
    /\ ops = 0

CompletionTick ==
    /\ ClockIsRead
    /\ AdvanceTime(CompletionClockCap)

CompletionNext ==
    \/ ops = 0 /\ SensorEvent
    \/ \E p \in Procs : ops = 0 /\ SetCoverPosition(p)
    \/ \E p \in Procs : ops = 0 /\ SetShade(p)
    \/ \E p \in Procs : FireSwitchReturns(p)
    \/ \E p \in Procs : StopCallReturns(p)
    \/ \E i \in TaskIds : RunMovementTask(i)
    \/ CompletionTick

CompletionSpec ==
    /\ CompletionInit
    /\ [][CompletionNext]_vars
    /\ \A i \in TaskIds : WF_vars(RunMovementTask(i))
    /\ WF_vars(CompletionTick)

\* A Movement with a positive expected duration is in flight.
MovementInFlight ==
    /\ LiveTasks(cover) # {}
    /\ cover.movement_expected_duration # None
    /\ cover.movement_expected_duration[1] > 0

\* The Movement has ended at its target and no tick task is left.
MovementSettled ==
    /\ LiveTasks(cover) = {}
    /\ cover.movement_task = None
    /\ cover.movement_target # None
    /\ cover.position = cover.movement_target[1]

\* C21: a Movement with expected duration > 0 that is started and followed
\* by no command and no sensor event ends by natural completion: eventually
\* no tick task is live and the committed position is the Movement's
\* target, from then on for ever, and no step changes the state after that.
C21_MovementCompletes ==
    /\ MovementInFlight ~> [](MovementSettled)
    /\ [][~MovementSettled]_vars

\* A Movement over more than one tick interval has run to its end by ticks
\* alone, the last of them late.
C21_Witness ==
    /\ MovementSettled
    /\ cover.unstopped_end = "completed"
    /\ cover.movement_expected_duration[1] > 1
    /\ now > cover.movement_start[1] + cover.movement_expected_duration[1]

====
